---- MODULE Spec2Model ----
(***************************************************************************)
(* Socket.IO relay: room-key registry, room fan-out, fire-and-forget       *)
(* persistence and heartbeat.  The repository holds two variants of the    *)
(* server: src/src/server.ts ("server") and src/unnamed/part_000           *)
(* ("part_000").  The variable `variant` fixes which one is running.       *)
(***************************************************************************)
EXTENDS Integers, Sequences, FiniteSets, TLC

(* ---------------------------- bounds ----------------------------------- *)
\* MaxInFlight  unanswered backend calls at a time (Spec)
\* MaxCreates   create_or_send handlers suspended at a time (SpecCreates)
\* MaxTime      clock readings
\* MaxMissed    packets kept for a connection that may come back (SpecRecovery)
MaxInFlight == 1
MaxCreates == 2
MaxTime == 1
MaxMissed == 2

(* ---------------------------- value domains ---------------------------- *)
\* Room ids are numbers n >= 0; `undefined` is Undef and the empty string is
\* EmptyString.
Undef == 0 - 1
EmptyString == 0 - 2

Variants == {"server", "part_000"}
Conns == {"c1", "c2"}
Keys == {"k1", "k2"}
NoKey == "nokey"
NoConn == "noconn"
Absent == "absent"

\* what the backend may answer as `id`, and what a client may put in room_id
\* and room_key
BackendIds == {1, 2}
\* ... and what it may answer at all: apiRoom.id is number | string, and a
\* 2xx body without an id leaves it undefined
AnyBackendIds == {Undef, 0, EmptyString, 1}
ClientRoomIds == {Undef, 1}
ClientRoomKeys == {NoKey, "k1"}
Contents == {"hi"}
TwoContents == {"hi", "yo"}
ActionNames == {"checkout_initiated", "checkout_completed", "user_viewing_product",
                "user_left_product", "order_paid"}

\* variant         which of the two servers runs
\* running         the process is alive
\* now             the last reading of the wall clock
\* roomKeyToId     the registry: room key -> backend room id
\* sock            each connection: "new", "open", "away" (the transport lost
\*                 it and keeps its session for its return) or "closed"
\* rooms           each connection's transport groups; for an "away" one, the
\*                 groups of its stored session
\* missed          the packets the transport keeps for each "away" connection
\* inflight        the backend calls not answered yet (a createRoom call is
\*                 the create_or_send handler suspended on its await)
\* lastOp, lastEmits, lastCalls   the current turn of the event loop
VARIABLES variant, running, now, roomKeyToId, sock, rooms, inflight, missed,
          lastOp, lastEmits, lastCalls

vars == <<variant, running, now, roomKeyToId, sock, rooms, inflight, missed,
          lastOp, lastEmits, lastCalls>>

(* ---------------------------- JavaScript helpers ----------------------- *)
\* truthiness of a `number | string | undefined`
Truthy(v) == v \notin {Undef, 0, EmptyString}

\* a || b
Or(a, b) == IF Truthy(a) THEN a ELSE b

\* String(roomId): the transport group name
String(id) ==
  CASE id = Undef -> "undefined"
    [] id = EmptyString -> ""
    [] id = 0 -> "0"
    [] id = 1 -> "1"
    [] OTHER -> "2"

\* Map.prototype.get
MapGet(k) == IF k \in DOMAIN roomKeyToId THEN roomKeyToId[k] ELSE Undef

MapSetOnly(k, v) == [x \in {k} |-> v]

MapSetAll(k, v) == [x \in (DOMAIN roomKeyToId) \cup {k} |-> v]

\* Map.prototype.set
MapSet(k, v) == [x \in (DOMAIN roomKeyToId) \cup {k} |-> IF x = k THEN v ELSE roomKeyToId[x]]

resolveRoomIdKeyFirst(room_id, room_key) ==
  IF room_key # NoKey /\ room_key \in DOMAIN roomKeyToId THEN MapGet(room_key) ELSE room_id

resolveRoomId(room_id, room_key) ==
  Or(room_id, IF room_key # NoKey THEN MapGet(room_key) ELSE Undef)

(* ---------------------------- messages and events ---------------------- *)
NoMsg == [sender |-> "none", sender_id |-> "none", content |-> "none"]

\* const msg: Message = { sender, sender_id, content } (server)
\* const msg: Message = { sender, content }            (part_000)
Message(sender, sender_id, content) ==
  IF variant = "server"
    THEN [sender |-> sender, sender_id |-> sender_id, content |-> content]
    ELSE [sender |-> sender, sender_id |-> Absent, content |-> content]

\* destructuring default:  sender = "user", sender_id = null
Default(v, d) == IF v = Absent THEN d ELSE v

NoBody == [room |-> Undef, key |-> NoKey, msg |-> NoMsg, text |-> "", time |-> 0]

Open == {c \in Conns : sock[c] = "open"}

\* the connected sockets of a transport group, under membership rm
Members(rm, g) == {c \in Conns : sock[c] = "open" /\ g \in rm[c]}

EmitSocketToAll(c, ev, body) ==
  [ev |-> ev, kind |-> "socket", to |-> c, rcpt |-> Open, body |-> body]

\* socket.emit(ev, body)
EmitSocket(c, ev, body) ==
  [ev |-> ev, kind |-> "socket", to |-> c, rcpt |-> {c} \cap Open, body |-> body]

EmitRoomToAll(rm, g, ev, body) ==
  [ev |-> ev, kind |-> "room", to |-> g, rcpt |-> Open, body |-> body]

\* io.to(g).emit(ev, body)
EmitRoom(rm, g, ev, body) ==
  [ev |-> ev, kind |-> "room", to |-> g, rcpt |-> Members(rm, g), body |-> body]

EmitOthersInclSender(rm, c, g, ev, body) ==
  [ev |-> ev, kind |-> "others", to |-> g, rcpt |-> Members(rm, g), body |-> body]

EmitOthersToAll(rm, c, g, ev, body) ==
  [ev |-> ev, kind |-> "others", to |-> g, rcpt |-> Open \ {c}, body |-> body]

\* socket.to(g).emit(ev, body)
EmitOthers(rm, c, g, ev, body) ==
  [ev |-> ev, kind |-> "others", to |-> g, rcpt |-> Members(rm, g) \ {c}, body |-> body]

\* io.emit(ev, body)
EmitAll(ev, body) ==
  [ev |-> ev, kind |-> "all", to |-> "*", rcpt |-> Open, body |-> body]

\* socket.join(g); the stored session of a connection that is away was taken
\* when it went away
Join(c, g) == IF sock[c] = "away" THEN rooms ELSE [rooms EXCEPT ![c] = @ \cup {g}]

(* ---------------------------- backend calls ---------------------------- *)
\* an outbound axios.post
Call(kind, c, key, room, msg) ==
  [kind |-> kind, conn |-> c, key |-> key, room |-> room, msg |-> msg]

Op(op, c, room_id, room_key, resolved) ==
  [op |-> op, conn |-> c, room_id |-> room_id, room_key |-> room_key,
   resolved |-> resolved, msg |-> NoMsg]

\* The event loop runs one callback at a time, to completion.  lastOp, lastEmits
\* and lastCalls record what the callback of the current turn did; between turns
\* the loop is idle.
Idle == lastOp.op = "idle"

\* the unanswered calls of the given kinds
Pending(kinds) == {call \in inflight : call.kind \in kinds}

(* ---------------------------- initial state ---------------------------- *)
Init ==
  /\ variant \in Variants
  /\ running = TRUE
  /\ now = 0
  /\ roomKeyToId = << >>
  /\ sock = [c \in Conns |-> "new"]
  /\ rooms = [c \in Conns |-> {}]
  /\ inflight = {}
  /\ missed = [c \in Conns |-> << >>]
  /\ lastOp = Op("idle", NoConn, Undef, NoKey, Undef)
  /\ lastEmits = << >>
  /\ lastCalls = << >>

(* ---------------------------- adapter ----------------------------------- *)
\* saveMessageAsync(roomId, message): one POST, not awaited, .catch logs only
saveMessageAsync(roomId, message) == Call("saveMessage", NoConn, NoKey, roomId, message)

\* createAction(payload): one POST; the caller does not await the promise
createAction == Call("createAction", NoConn, NoKey, Undef, NoMsg)

\* createRoomOnApi(payload): one POST, awaited by the create_or_send handler
createRoomOnApi(c, room_key, msg) == Call("createRoom", c, room_key, Undef, msg)

\* What becomes of a promise rejection nobody handles.  part_000 installs a
\* process.on("unhandledRejection") handler that exits; server.ts installs none,
\* so the runtime's default decides (exit on current runtimes, warn on old ones).
UnhandledRejectionOutcomes ==
  IF variant = "part_000" THEN {"exit"} ELSE {"exit", "warn"}

Turn(op, emits, calls) ==
  /\ lastOp' = op
  /\ lastEmits' = emits
  /\ lastCalls' = calls

\* connectionStateRecovery: whether the transport keeps packet e for the away
\* connection c: e went to a group of c's session, to everybody, or to c's own
\* socket
KeptFor(c, e) ==
  \/ e.kind = "all"
  \/ e.kind \in {"room", "others"} /\ e.to \in rooms[c]
  \/ e.kind = "socket" /\ e.to = c

MissedReversed(emits) ==
  [c \in Conns |->
     IF sock[c] = "away"
       THEN SelectSeq(emits, LAMBDA e : KeptFor(c, e)) \o missed[c]
       ELSE missed[c]]

\* connectionStateRecovery: the packets of this turn are appended, in the order
\* they were emitted, to what is kept for each away connection
Missed(emits) ==
  [c \in Conns |->
     IF sock[c] = "away"
       THEN missed[c] \o SelectSeq(emits, LAMBDA e : KeptFor(c, e))
       ELSE missed[c]]

Effects(op, emits, calls) ==
  /\ Turn(op, emits, calls)
  /\ missed' = Missed(emits)

(* ---------------------------- connections ------------------------------ *)
\* io.on("connection", ...)
Connect(c) ==
  /\ running
  /\ Idle
  /\ sock[c] = "new"
  /\ sock' = [sock EXCEPT ![c] = "open"]
  /\ Effects(Op("connection", c, Undef, NoKey, Undef), << >>, << >>)
  /\ UNCHANGED <<variant, running, now, roomKeyToId, rooms, inflight>>

\* socket.on("disconnect", ...): the handler only logs; the transport drops
\* the socket's group memberships
Disconnect(c) ==
  /\ running
  /\ Idle
  /\ sock[c] = "open"
  /\ sock' = [sock EXCEPT ![c] = "closed"]
  /\ rooms' = [rooms EXCEPT ![c] = {}]
  /\ Effects(Op("disconnect", c, Undef, NoKey, Undef), << >>, << >>)
  /\ UNCHANGED <<variant, running, now, roomKeyToId, inflight>>

\* the transport lost the connection (transport close, ping timeout): the
\* disconnect handler logs, and connectionStateRecovery stores the session
\* (the socket's groups) for the connection's return
ConnectionLost(c) ==
  /\ running
  /\ Idle
  /\ sock[c] = "open"
  /\ sock' = [sock EXCEPT ![c] = "away"]
  /\ Effects(Op("disconnect", c, Undef, NoKey, Undef), << >>, << >>)
  /\ UNCHANGED <<variant, running, now, roomKeyToId, rooms, inflight>>

\* connectionStateRecovery: what a recovered connection is sent on its return
Replay(c) == [i \in 1..Len(missed[c]) |-> [missed[c][i] EXCEPT !.rcpt = {c}]]

\* the connection comes back and io.on("connection") runs again: with its
\* session recovered (same groups, the missed packets sent to it), or, the
\* session being gone, as a fresh socket
Reconnect(c, recovered) ==
  /\ running
  /\ Idle
  /\ sock[c] = "away"
  /\ sock' = [sock EXCEPT ![c] = "open"]
  /\ rooms' = IF recovered THEN rooms ELSE [rooms EXCEPT ![c] = {}]
  /\ missed' = [missed EXCEPT ![c] = << >>]
  /\ Turn(Op("connection", c, Undef, NoKey, Undef),
          IF recovered THEN Replay(c) ELSE << >>, << >>)
  /\ UNCHANGED <<variant, running, now, roomKeyToId, inflight>>

(* ---------------------------- create_or_send --------------------------- *)
\* the handler up to `await createRoomOnApi(createPayload)`; room_key is
\* `room_` + the first 8 hex digits of a random uuid
CreateOrSend(c, sender, content) ==
  /\ running
  /\ Idle
  /\ sock[c] = "open"
  /\ \E room_key \in Keys :
       LET msg == Message(sender, "null", content)
           call == createRoomOnApi(c, room_key, msg)
       IN /\ inflight' = inflight \cup {call}
          /\ Effects([Op("create_or_send", c, Undef, room_key, Undef) EXCEPT !.msg = msg],
                     << >>, <<call>>)
  /\ UNCHANGED <<variant, running, now, roomKeyToId, sock, rooms>>

CreateRoomOkThenError(call, id) ==
  /\ running
  /\ Idle
  /\ call \in inflight
  /\ call.kind = "createRoom"
  /\ roomKeyToId' = MapSet(call.key, id)
  /\ rooms' = Join(call.conn, String(id))
  /\ inflight' = inflight \ {call}
  /\ Effects([Op("create_ok", call.conn, id, call.key, id) EXCEPT !.msg = call.msg],
             <<EmitSocket(call.conn, "room_created",
                          [NoBody EXCEPT !.room = id, !.key = call.key]),
               EmitSocket(call.conn, "error_creating_room",
                          [NoBody EXCEPT !.text = "No se pudo crear la sala"])>>,
             << >>)
  /\ UNCHANGED <<variant, running, now, sock>>

\* the continuation of the handler after createRoomOnApi returned apiRoom
CreateRoomOk(call, id) ==
  /\ running
  /\ Idle
  /\ call \in inflight
  /\ call.kind = "createRoom"
  /\ LET c == call.conn
         room_key == call.key
         roomId == id
         joined == Join(c, String(roomId))
         created == EmitSocket(c, "room_created",
                               [NoBody EXCEPT !.room = roomId, !.key = room_key])
         op == [Op("create_ok", c, roomId, room_key, roomId) EXCEPT !.msg = call.msg]
     IN /\ roomKeyToId' = MapSet(room_key, roomId)
        /\ rooms' = joined
        /\ IF variant = "server"
             THEN LET save == saveMessageAsync(roomId, call.msg)
                  IN /\ inflight' = (inflight \ {call}) \cup {save}
                     /\ Effects(op,
                                <<created,
                                  EmitRoom(joined, String(roomId), "new_message",
                                           [NoBody EXCEPT !.msg = call.msg])>>,
                                <<save>>)
             ELSE /\ inflight' = inflight \ {call}
                  /\ Effects(op, <<created>>, << >>)
  /\ UNCHANGED <<variant, running, now, sock>>

CreateRoomFailRetry(call, why) ==
  /\ running
  /\ Idle
  /\ call \in inflight
  /\ call.kind = "createRoom"
  /\ why \in {"rejected", "nobody"}
  /\ Effects([Op("create_failed", call.conn, Undef, call.key, Undef) EXCEPT !.msg = call.msg],
             <<EmitSocket(call.conn, "error_creating_room",
                          [NoBody EXCEPT !.text = "No se pudo crear la sala"])>>,
             <<call>>)
  /\ UNCHANGED <<variant, running, now, roomKeyToId, sock, rooms, inflight>>

CreateRoomFailRegisters(call, why) ==
  /\ running
  /\ Idle
  /\ call \in inflight
  /\ call.kind = "createRoom"
  /\ why \in {"rejected", "nobody"}
  /\ roomKeyToId' = MapSet(call.key, Undef)
  /\ inflight' = inflight \ {call}
  /\ Effects([Op("create_failed", call.conn, Undef, call.key, Undef) EXCEPT !.msg = call.msg],
             <<EmitSocket(call.conn, "error_creating_room",
                          [NoBody EXCEPT !.text = "No se pudo crear la sala"])>>,
             << >>)
  /\ UNCHANGED <<variant, running, now, sock, rooms>>

\* the catch branch: createRoomOnApi threw ("rejected"), or the response
\* carried no room object and reading its id threw ("nobody")
CreateRoomFail(call, why) ==
  /\ running
  /\ Idle
  /\ call \in inflight
  /\ call.kind = "createRoom"
  /\ why \in {"rejected", "nobody"}
  /\ LET c == call.conn
     IN /\ inflight' = inflight \ {call}
        /\ Effects([Op("create_failed", c, Undef, call.key, Undef) EXCEPT !.msg = call.msg],
                   <<EmitSocket(c, "error_creating_room",
                                [NoBody EXCEPT !.text = "No se pudo crear la sala"])>>,
                   << >>)
  /\ UNCHANGED <<variant, running, now, roomKeyToId, sock, rooms>>

(* ---------------------------- send_message / join_room ----------------- *)
\* socket.on("send_message", ...)
SendMessage(c, room_id, room_key, content, sender) ==
  /\ running
  /\ Idle
  /\ sock[c] = "open"
  /\ LET resolvedRoomId == resolveRoomId(room_id, room_key)
         msg == Message(Default(sender, "user"), "null", content)
         op == [Op("send_message", c, room_id, room_key, resolvedRoomId) EXCEPT !.msg = msg]
     IN IF ~Truthy(resolvedRoomId)
          THEN /\ Effects(op,
                          <<EmitSocket(c, "error",
                                       [NoBody EXCEPT !.text = "room_id o room_key requerido"])>>,
                          << >>)
               /\ UNCHANGED inflight
          ELSE LET save == saveMessageAsync(resolvedRoomId, msg)
               IN /\ Cardinality(inflight) < MaxInFlight
                  /\ inflight' = inflight \cup {save}
                  /\ Effects(op,
                             <<EmitRoom(rooms, String(resolvedRoomId), "new_message",
                                        [NoBody EXCEPT !.msg = msg])>>,
                             <<save>>)
  /\ UNCHANGED <<variant, running, now, roomKeyToId, sock, rooms>>

\* socket.on("join_room", ...)
JoinRoom(c, room_id, room_key) ==
  /\ running
  /\ Idle
  /\ sock[c] = "open"
  /\ LET resolvedRoomId == resolveRoomId(room_id, room_key)
         op == Op("join_room", c, room_id, room_key, resolvedRoomId)
     IN IF ~Truthy(resolvedRoomId)
          THEN /\ Effects(op,
                          <<EmitSocket(c, "error",
                                       [NoBody EXCEPT
                                          !.text = "room_id o room_key requerido para unirse"])>>,
                          << >>)
               /\ UNCHANGED rooms
          ELSE /\ rooms' = Join(c, String(resolvedRoomId))
               /\ Effects(op,
                          <<EmitSocket(c, "joined_room",
                                       [NoBody EXCEPT !.room = resolvedRoomId])>>,
                          << >>)
  /\ UNCHANGED <<variant, running, now, roomKeyToId, sock, inflight>>

(* ---------------------------- clock ------------------------------------ *)
DateNowReversed(t) == MaxTime - t

\* Date.now() / new Date(): the wall clock, read at t; it does not run backwards
DateNow(t) == t

ReadClock(t) ==
  /\ t \in now..MaxTime
  /\ now' = t

(* ---------------------------- typing ----------------------------------- *)
\* the emitted object: server spreads the payload (room_key stays in it),
\* part_000 lists the fields (room_key is dropped)
TypingBody(room_key, resolvedRoomId) ==
  [NoBody EXCEPT !.room = resolvedRoomId,
                 !.key = IF variant = "server" THEN room_key ELSE NoKey]

\* socket.on("user_typing", ...)
UserTyping(c, room_id, room_key) ==
  /\ running
  /\ Idle
  /\ sock[c] = "open"
  /\ LET resolvedRoomId == resolveRoomId(room_id, room_key)
         op == Op("user_typing", c, room_id, room_key, resolvedRoomId)
     IN IF ~Truthy(resolvedRoomId)
          THEN Effects(op, << >>, << >>)
          ELSE Effects(op,
                       <<EmitOthers(rooms, c, String(resolvedRoomId), "user_typing",
                                    TypingBody(room_key, resolvedRoomId))>>,
                       << >>)
  /\ UNCHANGED <<variant, running, now, roomKeyToId, sock, rooms, inflight>>

\* socket.on("user_stop_typing", ...)
UserStopTyping(c, room_id, room_key, t) ==
  /\ running
  /\ Idle
  /\ sock[c] = "open"
  /\ LET resolvedRoomId == resolveRoomId(room_id, room_key)
         op == Op("user_stop_typing", c, room_id, room_key, resolvedRoomId)
     IN IF ~Truthy(resolvedRoomId)
          THEN /\ t = now
               /\ Effects(op, << >>, << >>)
               /\ UNCHANGED now
          ELSE /\ ReadClock(t)
               /\ Effects(op,
                          <<EmitOthers(rooms, c, String(resolvedRoomId), "user_stop_typing",
                                       [TypingBody(room_key, resolvedRoomId)
                                          EXCEPT !.time = DateNow(t)])>>,
                          << >>)
  /\ UNCHANGED <<variant, running, roomKeyToId, sock, rooms, inflight>>

(* ---------------------------- action events ---------------------------- *)
\* server: socket.on("checkout_initiated" | ... | "order_paid") always io.emit;
\*         checkout_initiated first calls createAction(payload), not awaited.
\* part_000: actionEvents.forEach: resolve, then io.to(room) or io.emit.
\* Neither handler uses the socket the event came from.
ActionEvent(c, eventName, room_id, room_key) ==
  /\ running
  /\ Idle
  /\ sock[c] = "open"
  /\ LET payload == [NoBody EXCEPT !.room = room_id, !.key = room_key]
         eventData == NoBody
         resolvedRoomId == resolveRoomId(room_id, room_key)
     IN IF variant = "server"
          THEN LET op == Op(eventName, NoConn, room_id, room_key, Undef)
               IN IF eventName = "checkout_initiated"
                    THEN /\ Cardinality(inflight) < MaxInFlight
                         /\ inflight' = inflight \cup {createAction}
                         /\ Effects(op, <<EmitAll(eventName, payload)>>, <<createAction>>)
                    ELSE /\ Effects(op, <<EmitAll(eventName, payload)>>, << >>)
                         /\ UNCHANGED inflight
          ELSE LET op == Op(eventName, NoConn, room_id, room_key, resolvedRoomId)
               IN /\ IF Truthy(resolvedRoomId)
                       THEN Effects(op,
                                    <<EmitRoom(rooms, String(resolvedRoomId), eventName,
                                               eventData)>>,
                                    << >>)
                       ELSE Effects(op, <<EmitAll(eventName, payload)>>, << >>)
                  /\ UNCHANGED inflight
  /\ UNCHANGED <<variant, running, now, roomKeyToId, sock, rooms>>

(* ---------------------------- backend answers -------------------------- *)
\* the POST of a saveMessageAsync succeeded: nothing runs
SaveOk(call) ==
  /\ running
  /\ Idle
  /\ call \in inflight
  /\ call.kind = "saveMessage"
  /\ inflight' = inflight \ {call}
  /\ Effects([Op("save_ok", NoConn, call.room, NoKey, Undef) EXCEPT !.msg = call.msg],
             << >>, << >>)
  /\ UNCHANGED <<variant, running, now, roomKeyToId, sock, rooms>>

\* the POST of a saveMessageAsync failed: .catch logs
SaveFail(call) ==
  /\ running
  /\ Idle
  /\ call \in inflight
  /\ call.kind = "saveMessage"
  /\ inflight' = inflight \ {call}
  /\ Effects([Op("save_failed", NoConn, call.room, NoKey, Undef) EXCEPT !.msg = call.msg],
             << >>, << >>)
  /\ UNCHANGED <<variant, running, now, roomKeyToId, sock, rooms>>

\* the POST of createAction succeeded
ActionOk(call) ==
  /\ running
  /\ Idle
  /\ call \in inflight
  /\ call.kind = "createAction"
  /\ inflight' = inflight \ {call}
  /\ Effects(Op("action_ok", NoConn, Undef, NoKey, Undef), << >>, << >>)
  /\ UNCHANGED <<variant, running, now, roomKeyToId, sock, rooms>>

\* the POST of createAction failed: the catch logs and rethrows, which rejects
\* the promise the checkout_initiated handler dropped
ActionFail(call) ==
  /\ running
  /\ Idle
  /\ call \in inflight
  /\ call.kind = "createAction"
  /\ \E outcome \in UnhandledRejectionOutcomes :
       IF outcome = "exit"
         THEN \* the process dies: its memory and its sockets are gone
              /\ running' = FALSE
              /\ roomKeyToId' = << >>
              /\ sock' = [c \in Conns |->
                            IF sock[c] \in {"open", "away"} THEN "closed" ELSE sock[c]]
              /\ rooms' = [c \in Conns |-> {}]
              /\ inflight' = {}
              /\ missed' = [c \in Conns |-> << >>]
              /\ Turn(Op("action_failed_exit", NoConn, Undef, NoKey, Undef), << >>, << >>)
         ELSE /\ inflight' = inflight \ {call}
              /\ Effects(Op("action_failed_warn", NoConn, Undef, NoKey, Undef), << >>, << >>)
              /\ UNCHANGED <<running, roomKeyToId, sock, rooms>>
  /\ UNCHANGED <<variant, now>>

(* ---------------------------- heartbeat -------------------------------- *)
\* setInterval(() => io.emit("heartbeat", { time: Date.now() }), ...)
Heartbeat(t) ==
  /\ running
  /\ Idle
  /\ ReadClock(t)
  /\ Effects(Op("heartbeat", NoConn, Undef, NoKey, Undef),
             <<EmitAll("heartbeat", [NoBody EXCEPT !.time = DateNow(t)])>>, << >>)
  /\ UNCHANGED <<variant, running, roomKeyToId, sock, rooms, inflight>>

(* ---------------------------- event loop ------------------------------- *)
\* the callback returns to the event loop
EndTurn ==
  /\ ~Idle
  /\ Effects(Op("idle", NoConn, Undef, NoKey, Undef), << >>, << >>)
  /\ UNCHANGED <<variant, running, now, roomKeyToId, sock, rooms, inflight>>

(* ---------------------------- specification ---------------------------- *)
Next ==
  \/ \E c \in Conns : Connect(c)
  \/ \E c \in Conns : Disconnect(c)
  \/ \E c \in Conns, sender \in {"user"}, content \in Contents :
       /\ Cardinality(inflight) < MaxInFlight
       /\ CreateOrSend(c, sender, content)
  \/ \E call \in inflight, id \in BackendIds : CreateRoomOk(call, id)
  \/ \E call \in inflight, why \in {"rejected", "nobody"} : CreateRoomFail(call, why)
  \/ \E c \in Conns, room_id \in ClientRoomIds, room_key \in ClientRoomKeys,
        content \in Contents, sender \in {Absent} :
       SendMessage(c, room_id, room_key, content, sender)
  \/ \E c \in Conns, room_id \in ClientRoomIds, room_key \in ClientRoomKeys :
       JoinRoom(c, room_id, room_key)
  \/ \E c \in Conns, room_id \in ClientRoomIds, room_key \in ClientRoomKeys :
       UserTyping(c, room_id, room_key)
  \/ \E c \in Conns, room_id \in ClientRoomIds, room_key \in ClientRoomKeys,
        t \in 0..MaxTime :
       UserStopTyping(c, room_id, room_key, t)
  \/ \E c \in Conns, eventName \in ActionNames, room_id \in ClientRoomIds,
        room_key \in ClientRoomKeys :
       ActionEvent(c, eventName, room_id, room_key)
  \/ \E call \in inflight : SaveOk(call)
  \/ \E call \in inflight : SaveFail(call)
  \/ \E call \in inflight : ActionOk(call)
  \/ \E call \in inflight : ActionFail(call)
  \/ \E t \in 0..MaxTime : Heartbeat(t)
  \/ EndTurn

Spec == Init /\ [][Next]_vars

\* create_or_send handlers suspended on createRoom at the same time, their
\* answers arriving in any order, mixed with join_room, connects and disconnects
NextCreates ==
  \/ \E c \in Conns : Connect(c)
  \/ \E c \in Conns : Disconnect(c)
  \/ \E c \in Conns, sender \in {"user"}, content \in Contents :
       /\ Cardinality(Pending({"createRoom"})) < MaxCreates
       /\ CreateOrSend(c, sender, content)
  \/ \E call \in inflight, id \in BackendIds : CreateRoomOk(call, id)
  \/ \E call \in inflight, why \in {"rejected", "nobody"} : CreateRoomFail(call, why)
  \/ \E c \in Conns, room_id \in ClientRoomIds, room_key \in ClientRoomKeys :
       JoinRoom(c, room_id, room_key)
  \/ \E call \in inflight : SaveOk(call)
  \/ \E call \in inflight : SaveFail(call)
  \/ EndTurn

SpecCreates == Init /\ [][NextCreates]_vars

\* create_or_send, join_room and send_message with every kind of id the
\* backend can answer
NextIds ==
  \/ \E c \in Conns : Connect(c)
  \/ \E c \in Conns, sender \in {"user"}, content \in Contents :
       /\ Cardinality(inflight) < MaxInFlight
       /\ CreateOrSend(c, sender, content)
  \/ \E call \in inflight, id \in AnyBackendIds : CreateRoomOk(call, id)
  \/ \E call \in inflight, why \in {"rejected", "nobody"} : CreateRoomFail(call, why)
  \/ \E c \in Conns, room_id \in ClientRoomIds, room_key \in ClientRoomKeys,
        content \in Contents, sender \in {Absent} :
       SendMessage(c, room_id, room_key, content, sender)
  \/ \E c \in Conns, room_id \in ClientRoomIds, room_key \in ClientRoomKeys :
       JoinRoom(c, room_id, room_key)
  \/ \E call \in inflight : SaveOk(call)
  \/ \E call \in inflight : SaveFail(call)
  \/ EndTurn

SpecIds == Init /\ [][NextIds]_vars

\* connections that are lost and come back while rooms are created and
\* joined and messages are sent to them
NextRecovery ==
  \/ \E c \in Conns : Connect(c)
  \/ \E c \in Conns : Disconnect(c)
  \/ \E c \in Conns : ConnectionLost(c)
  \/ \E c \in Conns, recovered \in BOOLEAN : Reconnect(c, recovered)
  \/ \E c \in Conns, sender \in {"user"}, content \in Contents :
       /\ inflight = {}
       /\ \A a \in Conns : Len(missed[a]) < MaxMissed
       /\ CreateOrSend(c, sender, content)
  \/ \E call \in inflight, id \in {1} : CreateRoomOk(call, id)
  \/ \E call \in inflight, why \in {"rejected", "nobody"} : CreateRoomFail(call, why)
  \/ \E c \in Conns, room_id \in ClientRoomIds, room_key \in ClientRoomKeys,
        content \in TwoContents, sender \in {Absent} :
       /\ \A a \in Conns : Len(missed[a]) < MaxMissed
       /\ SendMessage(c, room_id, room_key, content, sender)
  \/ \E c \in Conns, room_id \in ClientRoomIds, room_key \in ClientRoomKeys :
       JoinRoom(c, room_id, room_key)
  \/ \E call \in inflight : SaveOk(call)
  \/ \E call \in inflight : SaveFail(call)
  \/ EndTurn

SpecRecovery == Init /\ [][NextRecovery]_vars

\* a create_or_send and what becomes of its requester meanwhile: it stays, it
\* disconnects, its connection is lost and comes back, or the process ends
\* (checkout_initiated whose createAction fails).  One create_or_send is
\* suspended at a time; checkout_initiated and the heartbeat run while no
\* connection is away, which keeps the packets kept for a connection to those
\* of its own create_or_send.
NextLive ==
  \/ \E c \in Conns : Connect(c)
  \/ \E c \in Conns : Disconnect(c)
  \/ \E c \in Conns : ConnectionLost(c)
  \/ \E c \in Conns, recovered \in BOOLEAN : Reconnect(c, recovered)
  \/ \E c \in Conns, sender \in {"user"}, content \in Contents :
       /\ inflight = {}
       /\ \A a \in Conns : Len(missed[a]) < MaxMissed
       /\ CreateOrSend(c, sender, content)
  \/ \E call \in inflight, id \in {1} : CreateRoomOk(call, id)
  \/ \E call \in inflight, why \in {"rejected", "nobody"} : CreateRoomFail(call, why)
  \/ \E c \in Conns :
       /\ Pending({"createAction"}) = {}
       /\ \A a \in Conns : sock[a] # "away"
       /\ ActionEvent(c, "checkout_initiated", Undef, NoKey)
  \/ \E call \in inflight : SaveOk(call)
  \/ \E call \in inflight : SaveFail(call)
  \/ \E call \in inflight : ActionOk(call)
  \/ \E call \in inflight : ActionFail(call)
  \/ \E t \in 0..MaxTime :
       /\ \A a \in Conns : sock[a] # "away"
       /\ Heartbeat(t)
  \/ EndTurn

\* the backend answers every createRoom call
AnswerCreate ==
  \E call \in inflight :
    \/ \E id \in {1} : CreateRoomOk(call, id)
    \/ \E why \in {"rejected", "nobody"} : CreateRoomFail(call, why)

\* The event loop runs every callback that is ready: each turn ends, the
\* continuation of an answered createRoom runs although other callbacks keep
\* the loop busy in between, and so does the heartbeat timer.
SpecLive ==
  /\ Init
  /\ [][NextLive]_vars
  /\ WF_vars(EndTurn)
  /\ SF_vars(AnswerCreate)
  /\ SF_vars(\E t \in 0..MaxTime : Heartbeat(t))

(* ======================================================================= *)
(* Claims                                                                   *)
(* ======================================================================= *)
ResolvingOps == {"send_message", "join_room", "user_typing", "user_stop_typing"}

\* C1 (as stated): while the process lives, a registered key stays registered
\* to the same id in every later state: the entry is never reassigned or removed.
C1_NeverReassigned ==
  [][running' =>
       \A k \in DOMAIN roomKeyToId :
         k \in DOMAIN roomKeyToId' /\ roomKeyToId'[k] = roomKeyToId[k]]_vars

\* C1 (amended): a successful create_or_send registers its key with the id the
\* backend returned; while the process lives a registered key is never removed,
\* its id changes only in the step of a later successful create_or_send that
\* generated the same key (which overwrites it with that call's id), and
\* resolve(undefined, K) returns the id currently registered for K.
C1_RegisteredUntilSameKey ==
  /\ [](lastOp.op = "create_ok" =>
          /\ lastOp.room_key \in DOMAIN roomKeyToId
          /\ roomKeyToId[lastOp.room_key] = lastOp.room_id)
  /\ [](\A k \in DOMAIN roomKeyToId : resolveRoomId(Undef, k) = roomKeyToId[k])
  /\ [][running' =>
          \A k \in DOMAIN roomKeyToId :
            /\ k \in DOMAIN roomKeyToId'
            /\ roomKeyToId'[k] # roomKeyToId[k] =>
                 /\ lastOp'.op = "create_ok"
                 /\ lastOp'.room_key = k
                 /\ roomKeyToId'[k] = lastOp'.room_id]_vars

\* both keys are registered and a later create_or_send has just succeeded
C1_Witness ==
  /\ lastOp.op = "create_ok"
  /\ DOMAIN roomKeyToId = Keys
  /\ roomKeyToId["k1"] # roomKeyToId["k2"]

\* C2: resolve(roomId, roomKey) with a truthy roomId returns roomId, whatever
\* roomKey is and whatever the registry holds for it; the handlers that resolve
\* with a truthy room_id get that id and leave the registry unchanged.
C2_RoomIdPrecedence ==
  /\ [](\A room_id \in ClientRoomIds \cup BackendIds, room_key \in {NoKey} \cup Keys :
          Truthy(room_id) => resolveRoomId(room_id, room_key) = room_id)
  /\ []((lastOp.op \in ResolvingOps /\ Truthy(lastOp.room_id)) =>
          lastOp.resolved = lastOp.room_id)
  /\ [][(lastOp'.op \in ResolvingOps /\ Truthy(lastOp'.room_id)) =>
          roomKeyToId' = roomKeyToId]_vars

\* a handler resolved a truthy room_id sent with a key registered to another id
C2_Witness ==
  /\ lastOp.op = "send_message"
  /\ lastOp.room_id = 1
  /\ lastOp.room_key = "k1"
  /\ "k1" \in DOMAIN roomKeyToId
  /\ roomKeyToId["k1"] # 1
  /\ lastOp.resolved = 1

C3_Text(op) ==
  IF op = "send_message" THEN "room_id o room_key requerido"
                         ELSE "room_id o room_key requerido para unirse"

\* C3: send_message or join_room with no room id and a key that is absent or
\* not registered emits exactly one error to the requester, reaches no other
\* connection, issues no broadcast and no backend call, and changes no group
\* membership.
C3_UnresolvedError ==
  [][(/\ lastOp'.op \in {"send_message", "join_room"}
      /\ lastOp'.room_id = Undef
      /\ (lastOp'.room_key = NoKey \/ lastOp'.room_key \notin DOMAIN roomKeyToId)) =>
       /\ Len(lastEmits') = 1
       /\ lastEmits'[1].ev = "error"
       /\ lastEmits'[1].kind = "socket"
       /\ lastEmits'[1].to = lastOp'.conn
       /\ lastEmits'[1].rcpt = {lastOp'.conn}
       /\ lastEmits'[1].body.text = C3_Text(lastOp'.op)
       /\ lastCalls' = << >>
       /\ inflight' = inflight
       /\ rooms' = rooms
       /\ roomKeyToId' = roomKeyToId]_vars

\* join_room by a key that was never registered, with another client connected
C3_Witness ==
  /\ lastOp.op = "join_room"
  /\ lastOp.room_id = Undef
  /\ lastOp.room_key = "k1"
  /\ "k1" \notin DOMAIN roomKeyToId
  /\ Len(lastEmits) = 1
  /\ lastEmits[1].ev = "error"
  /\ Open = Conns

\* C4: a send_message that resolves to R broadcasts exactly one new_message,
\* to exactly the connected members of group String(R) (the sender is not
\* excluded), and issues exactly one persistence call for that message on R.
C4_SendBroadcast ==
  (lastOp.op = "send_message" /\ Truthy(lastOp.resolved)) =>
     /\ Len(lastEmits) = 1
     /\ lastEmits[1].ev = "new_message"
     /\ lastEmits[1].rcpt =
          {c \in Conns : sock[c] = "open" /\ String(lastOp.resolved) \in rooms[c]}
     /\ (String(lastOp.resolved) \in rooms[lastOp.conn] => lastOp.conn \in lastEmits[1].rcpt)
     /\ lastEmits[1].body.msg = lastOp.msg
     /\ lastOp.msg.content \in Contents
     /\ lastOp.msg.sender = "user"
     /\ Len(lastCalls) = 1
     /\ lastCalls[1].kind = "saveMessage"
     /\ lastCalls[1].room = lastOp.resolved
     /\ lastCalls[1].msg = lastOp.msg

\* the sender is in the group, the other client is connected but is not
C4_Witness ==
  /\ lastOp.op = "send_message"
  /\ Truthy(lastOp.resolved)
  /\ Open = Conns
  /\ lastEmits[1].rcpt = {lastOp.conn}

PersistenceCalls == {"saveMessage", "createAction"}
PersistenceFailures == {"save_failed", "action_failed_exit", "action_failed_warn"}

\* C5 (as stated): a handler that issues a persistence call emits its broadcast
\* in the same step, before the call is answered; and the step in which a
\* persistence call fails emits nothing to any client and changes neither the
\* registry nor any group membership.
C5_PersistenceIsolated ==
  [][/\ (\E i \in 1..Len(lastCalls') : lastCalls'[i].kind \in PersistenceCalls) =>
          \E j \in 1..Len(lastEmits') :
            /\ lastEmits'[j].kind \in {"room", "all"}
            /\ lastEmits'[j].ev \in {"new_message", "checkout_initiated"}
     /\ lastOp'.op \in PersistenceFailures =>
          /\ lastEmits' = << >>
          /\ roomKeyToId' = roomKeyToId
          /\ rooms' = rooms]_vars

\* C6 (as stated): an action event without roomId and roomKey reaches every
\* connected client; one with a truthy roomId R reaches exactly the connected
\* members of group String(R).
C6_ActionScope ==
  lastOp.op \in ActionNames =>
    /\ Len(lastEmits) = 1
    /\ lastEmits[1].ev = lastOp.op
    /\ (lastOp.room_id = Undef /\ lastOp.room_key = NoKey) => lastEmits[1].rcpt = Open
    /\ Truthy(lastOp.room_id) =>
         lastEmits[1].rcpt =
           {c \in Conns : sock[c] = "open" /\ String(lastOp.room_id) \in rooms[c]}

\* C7 (as stated): after a create_or_send whose createRoom returned id R the
\* requester is in group String(R), room_created{R, key} went to the requester
\* alone, then new_message{sender, content} was broadcast to group String(R),
\* and one persistence call for that message on R was issued.
C7_CreateSuccess ==
  lastOp.op = "create_ok" =>
    /\ String(lastOp.room_id) \in rooms[lastOp.conn]
    /\ Len(lastEmits) = 2
    /\ lastEmits[1].ev = "room_created"
    /\ lastEmits[1].kind = "socket"
    /\ lastEmits[1].to = lastOp.conn
    /\ lastEmits[1].rcpt = {lastOp.conn} \cap Open
    /\ lastEmits[1].body.room = lastOp.room_id
    /\ lastEmits[1].body.key = lastOp.room_key
    /\ lastEmits[2].ev = "new_message"
    /\ lastEmits[2].kind = "room"
    /\ lastEmits[2].to = String(lastOp.room_id)
    /\ ({lastOp.conn} \cap Open) \subseteq lastEmits[2].rcpt
    /\ lastEmits[2].body.msg = lastOp.msg
    /\ Len(lastCalls) = 1
    /\ lastCalls[1].kind = "saveMessage"
    /\ lastCalls[1].room = lastOp.room_id
    /\ lastCalls[1].msg = lastOp.msg

\* C8: the step in which a createRoom call fails emits error_creating_room to
\* the requester's socket only, issues no backend call (no retry, no message
\* persistence), emits no new_message, and leaves the registry and every group
\* membership unchanged; the failed call is gone.
C8_CreateFailure ==
  [][lastOp'.op = "create_failed" =>
       /\ Len(lastEmits') = 1
       /\ lastEmits'[1].ev = "error_creating_room"
       /\ lastEmits'[1].kind = "socket"
       /\ lastEmits'[1].to = lastOp'.conn
       /\ lastEmits'[1].rcpt = {lastOp'.conn} \cap Open
       /\ lastCalls' = << >>
       /\ roomKeyToId' = roomKeyToId
       /\ rooms' = rooms
       /\ inflight' \subseteq inflight
       /\ Cardinality(inflight') = Cardinality(inflight) - 1
       /\ \A call \in inflight' : call.kind # "saveMessage" \/ call \in inflight]_vars

\* the create failed for a connected requester whose key was never registered
C8_Witness ==
  /\ lastOp.op = "create_failed"
  /\ lastEmits[1].rcpt = {lastOp.conn}
  /\ lastOp.room_key \notin DOMAIN roomKeyToId
  /\ rooms[lastOp.conn] = {}
  /\ Open = Conns

\* C9 (as stated): no appendMessage or recordAction failure is left to the
\* caller or the runtime as a rejected promise, and the relay is running in
\* every reachable state.
C9_FailuresContained ==
  /\ running
  /\ lastOp.op \notin {"action_failed_exit", "action_failed_warn"}

C11_RecordAction ==
  lastOp.op = "checkout_initiated" =>
    /\ Len(lastCalls) = 1
    /\ lastCalls[1].kind = "createAction"
    /\ lastCalls[1] \in inflight
    /\ Len(lastEmits) = 1
    /\ lastEmits[1].ev = "checkout_initiated"
    /\ lastEmits[1].kind \in {"all", "room"}

TypingOps == {"user_typing", "user_stop_typing"}

\* C12: a user_typing / user_stop_typing that resolves to R emits one event of
\* the same name to exactly the connected members of group String(R) other than
\* the sender, with room id R (and, for stop, the clock reading of the step);
\* one that does not resolve emits nothing; either way no backend call is made
\* and registry, memberships and connections stay as they were.
C12_Typing ==
  [][lastOp'.op \in TypingOps =>
       /\ Truthy(lastOp'.resolved) =>
            /\ Len(lastEmits') = 1
            /\ lastEmits'[1].ev = lastOp'.op
            /\ lastEmits'[1].rcpt =
                 {c \in Conns : sock[c] = "open" /\ String(lastOp'.resolved) \in rooms[c]}
                   \ {lastOp'.conn}
            /\ lastOp'.conn \notin lastEmits'[1].rcpt
            /\ lastEmits'[1].body.room = lastOp'.resolved
            /\ lastOp'.op = "user_stop_typing" => lastEmits'[1].body.time = now'
       /\ ~Truthy(lastOp'.resolved) =>
            /\ lastEmits' = << >>
            /\ now' = now
       /\ lastCalls' = << >>
       /\ roomKeyToId' = roomKeyToId
       /\ rooms' = rooms
       /\ sock' = sock
       /\ inflight' = inflight]_vars

\* the sender and the other client are both in the room: only the other gets it
C12_Witness ==
  /\ lastOp.op = "user_stop_typing"
  /\ lastOp.room_id = Undef
  /\ lastOp.room_key = "k1"
  /\ Truthy(lastOp.resolved)
  /\ String(lastOp.resolved) \in rooms[lastOp.conn]
  /\ Cardinality(lastEmits[1].rcpt) = 1
  /\ now = MaxTime

\* the handlers and callbacks that never write the registry
C13_ReadOnlyOps ==
  {"send_message", "join_room", "user_typing", "user_stop_typing", "heartbeat",
   "connection", "disconnect", "create_or_send", "create_failed", "save_ok",
   "save_failed", "action_ok"} \cup ActionNames

\* C13: while the process lives, the registry changes only in the step of a
\* successful create_or_send, which inserts that call's key with the returned
\* id and leaves every other entry as it was; send_message, join_room, typing,
\* action events, heartbeat, disconnect and a failed create_or_send leave it
\* unchanged; and no step removes a key.
C13_OnlyCreateInserts ==
  [][running' =>
       /\ roomKeyToId' # roomKeyToId =>
            /\ lastOp'.op = "create_ok"
            /\ DOMAIN roomKeyToId' = DOMAIN roomKeyToId \cup {lastOp'.room_key}
            /\ roomKeyToId'[lastOp'.room_key] = lastOp'.room_id
            /\ \A k \in DOMAIN roomKeyToId \ {lastOp'.room_key} :
                 roomKeyToId'[k] = roomKeyToId[k]
       /\ lastOp'.op \in C13_ReadOnlyOps => roomKeyToId' = roomKeyToId
       /\ DOMAIN roomKeyToId \subseteq DOMAIN roomKeyToId']_vars

\* a create_or_send failed while another key was registered and its creator gone
C13_Witness ==
  /\ lastOp.op = "create_failed"
  /\ DOMAIN roomKeyToId # {}
  /\ lastOp.room_key \notin DOMAIN roomKeyToId
  /\ \E c \in Conns : sock[c] = "closed"

\* the create_or_send handlers suspended on createRoom, other than the one
\* whose answer the current step handled
C15_Others(op, calls) ==
  {call \in calls : call.kind = "createRoom" /\ call.key # op.room_key}

\* C15: when the answer to one createRoom arrives while other create_or_send
\* handlers with different keys are suspended, a success writes exactly its own
\* key with its own returned id and a failure writes nothing; either way the
\* entries of all other keys stay as they were, the keys of the suspended
\* handlers gain no entry, and those handlers stay suspended with their own key.
C15_ConcurrentCreates ==
  [][(lastOp'.op \in {"create_ok", "create_failed"} /\ C15_Others(lastOp', inflight) # {}) =>
       /\ lastOp'.op = "create_ok" =>
            /\ lastOp'.room_key \in DOMAIN roomKeyToId'
            /\ roomKeyToId'[lastOp'.room_key] = lastOp'.room_id
       /\ lastOp'.op = "create_failed" => roomKeyToId' = roomKeyToId
       /\ \A k \in Keys \ {lastOp'.room_key} :
            /\ k \in DOMAIN roomKeyToId' <=> k \in DOMAIN roomKeyToId
            /\ k \in DOMAIN roomKeyToId => roomKeyToId'[k] = roomKeyToId[k]
       /\ C15_Others(lastOp', inflight') = C15_Others(lastOp', inflight)]_vars

\* the handler that started with key k2 got id 2 while the one with key k1,
\* whose key is registered to 1 from an earlier create, is still suspended
C15_Witness ==
  /\ lastOp.op = "create_ok"
  /\ lastOp.room_key = "k2"
  /\ lastOp.room_id = 2
  /\ \E call \in inflight : call.kind = "createRoom" /\ call.key = "k1"
  /\ DOMAIN roomKeyToId = Keys
  /\ roomKeyToId["k1"] = 1

\* C14 (as stated): every key in the registry maps to a defined room id,
\* whatever the backend answered to createRoom.
C14_DefinedIds ==
  \A k \in DOMAIN roomKeyToId : roomKeyToId[k] # Undef

\* C20 (as stated): a join_room or send_message by key alone, the key being
\* registered to a defined id R (0 and the empty string included), resolves to
\* R: join_room puts the requester in group String(R) and answers joined_room,
\* send_message broadcasts new_message to group String(R), and neither emits
\* the 'room id/key required' error.
C20_KeyResolves ==
  (/\ lastOp.op \in {"join_room", "send_message"}
   /\ lastOp.room_id = Undef
   /\ lastOp.room_key \in DOMAIN roomKeyToId
   /\ roomKeyToId[lastOp.room_key] # Undef) =>
     /\ lastOp.resolved = roomKeyToId[lastOp.room_key]
     /\ Len(lastEmits) = 1
     /\ lastEmits[1].ev # "error"
     /\ lastOp.op = "join_room" =>
          /\ String(roomKeyToId[lastOp.room_key]) \in rooms[lastOp.conn]
          /\ lastEmits[1].ev = "joined_room"
     /\ lastOp.op = "send_message" =>
          /\ lastEmits[1].ev = "new_message"
          /\ lastEmits[1].to = String(roomKeyToId[lastOp.room_key])

\* the new_message broadcasts among emits, in their order
C16_Messages(emits) == SelectSeq(emits, LAMBDA e : e.ev = "new_message")

\* the new_message broadcasts among emits that went to a group in gs, in order
C16_MessagesTo(emits, gs) ==
  SelectSeq(emits, LAMBDA e : e.ev = "new_message" /\ e.kind = "room" /\ e.to \in gs)

C17_NoReplay ==
  \A i \in 1..Len(lastEmits) :
    (lastEmits[i].ev = "new_message" /\ lastEmits[i].rcpt # {}) =>
       lastOp.op \in {"send_message", "create_ok"}

C18_Terminal == {"room_created", "error_creating_room"}

\* the terminal responses among emits
C18_Terminals(emits) == SelectSeq(emits, LAMBDA e : e.ev \in C18_Terminal)

\* C18 (as stated): while the relay runs, the requester of every
\* create_or_send eventually receives room_created or error_creating_room.
C18_RequesterAnswered ==
  \A c \in Conns :
    (\E call \in inflight : call.kind = "createRoom" /\ call.conn = c)
      ~> (\/ ~running
          \/ \E i \in 1..Len(lastEmits) :
               lastEmits[i].ev \in C18_Terminal /\ c \in lastEmits[i].rcpt)

\* C18 (amended): the step that handles the answer to a createRoom call ends
\* that call and emits exactly one terminal response, on the requester's
\* socket: room_created on success, error_creating_room on failure; it reaches
\* the requester in that step if it is connected, is kept for it if its
\* connection is away, and reaches nobody otherwise.  No other step emits a
\* terminal response, except the return of a connection, which is sent the
\* ones kept for it, once.  A suspended create_or_send ends only by its answer
\* or with the process.
C18_OneTerminalResponse ==
  /\ [][lastOp'.op \in {"create_ok", "create_failed"} =>
          /\ \E call \in inflight :
               /\ call.kind = "createRoom"
               /\ call.conn = lastOp'.conn
               /\ call.key = lastOp'.room_key
               /\ call \notin inflight'
               /\ Pending({"createRoom"})' = Pending({"createRoom"}) \ {call}
          /\ Len(C18_Terminals(lastEmits')) = 1
          /\ C18_Terminals(lastEmits')[1].kind = "socket"
          /\ C18_Terminals(lastEmits')[1].to = lastOp'.conn
          /\ C18_Terminals(lastEmits')[1].ev =
               (IF lastOp'.op = "create_ok" THEN "room_created" ELSE "error_creating_room")
          /\ C18_Terminals(lastEmits')[1].rcpt =
               (IF sock[lastOp'.conn] = "open" THEN {lastOp'.conn} ELSE {})
          /\ C18_Terminals(missed'[lastOp'.conn]) =
               C18_Terminals(missed[lastOp'.conn]) \o
                 (IF sock[lastOp'.conn] = "away" THEN C18_Terminals(lastEmits') ELSE << >>)]_vars
  /\ [][(lastOp'.op \notin {"create_ok", "create_failed"}) =>
          /\ Pending({"createRoom"})' # Pending({"createRoom"}) =>
               \/ lastOp'.op = "create_or_send"
               \/ ~running'
          /\ C18_Terminals(lastEmits') # << >> =>
               /\ lastOp'.op = "connection"
               /\ sock[lastOp'.conn] = "away"
               /\ Len(C18_Terminals(lastEmits')) = Len(C18_Terminals(missed[lastOp'.conn]))
               /\ \A i \in 1..Len(C18_Terminals(lastEmits')) :
                    /\ C18_Terminals(lastEmits')[i].ev = C18_Terminals(missed[lastOp'.conn])[i].ev
                    /\ C18_Terminals(lastEmits')[i].rcpt = {lastOp'.conn}
               /\ missed'[lastOp'.conn] = << >>]_vars
  /\ \A c \in Conns :
       (\E call \in inflight : call.kind = "createRoom" /\ call.conn = c)
         ~> (\/ ~running
             \/ /\ lastOp.op \in {"create_ok", "create_failed"}
                /\ lastOp.conn = c
                /\ Len(C18_Terminals(lastEmits)) = 1)

\* a connection that was away when its create_or_send succeeded has returned
\* and is sent the room_created kept for it
C18_Witness ==
  /\ lastOp.op = "connection"
  /\ Len(lastEmits) >= 1
  /\ lastEmits[1].ev = "room_created"
  /\ lastEmits[1].rcpt = {lastOp.conn}
  /\ missed[lastOp.conn] = << >>

C19_RoomEvents == {"new_message", "user_typing", "user_stop_typing"}

\* C19: a new_message, user_typing or user_stop_typing goes to the group of
\* the room it is addressed to and reaches only connections that are in that
\* group; and a connection gets into a group only by its own successful
\* create_or_send for that room or its own join_room resolving to it.  So a
\* connection that never joined R receives nothing addressed to R.
C19_RoomIsolation ==
  /\ [](\A i \in 1..Len(lastEmits) :
          lastEmits[i].ev \in C19_RoomEvents =>
            /\ lastEmits[i].to = String(lastOp.resolved)
            /\ \A c \in lastEmits[i].rcpt : lastEmits[i].to \in rooms[c])
  /\ [][\A c \in Conns : \A g \in rooms'[c] \ rooms[c] :
          /\ lastOp'.conn = c
          /\ lastOp'.op \in {"create_ok", "join_room"}
          /\ g = String(lastOp'.resolved)]_vars

\* a member types in its room while the other connected client, which never
\* joined, is in another room: nobody receives the event
C19_Witness ==
  /\ lastOp.op = "user_typing"
  /\ Truthy(lastOp.resolved)
  /\ String(lastOp.resolved) \in rooms[lastOp.conn]
  /\ Open = Conns
  /\ \A c \in Conns \ {lastOp.conn} :
       rooms[c] # {} /\ String(lastOp.resolved) \notin rooms[c]
  /\ Len(lastEmits) = 1
  /\ lastEmits[1].rcpt = {}

====
